---------------------------- MODULE Spec2Model ----------------------------
(***************************************************************************)
(* Model of cosmo_surface_viewer: the mesh builder (mesh.py build_faces),  *)
(* the color mapper (mesh.py map_colors) and the orchestration loop        *)
(* (core.py process_all).                                                  *)
(*                                                                         *)
(* Numbers.  Coordinates are integers, so a Euclidean distance is known    *)
(* exactly by its square.  A surface area is held in units of pi           *)
(* (area = q * pi), so the patch radius sqrt(area / pi) is sqrt(q) and the *)
(* radius-sum test is decided exactly in integers (see WithinThreshold).   *)
(* neighbors_threshold is a positive rational <<num, den>>.                *)
(*                                                                         *)
(* A neighbour list is held as the set of its ids: query_ball_point gives  *)
(* each id once, and the faces built do not depend on the order in which   *)
(* the lists are walked (faces_set is a set of sorted triples).            *)
(***************************************************************************)
EXTENDS Integers, Sequences, FiniteSets, TLC

VARIABLES
    \* ---- build_faces: arguments
    points,               \* [0..N-1 -> Positions]
    surface_areas,        \* [0..N-1 -> AreaUnits], area in units of pi
    sphere_owners,        \* [0..N-1 -> Owners]
    neighbor_radius,      \* integer length
    max_neighbors,        \* integer cap
    neighbors_threshold,  \* <<num, den>>
    \* ---- build_faces: locals
    bf_pc,                \* "neighbors" | "faces" | "done"
    bf_i,                 \* the running loop index i
    neighbors,            \* [0..bf_i-1 -> SUBSET vertex ids], mesh.py:24
    faces_set,            \* set of sorted triples, mesh.py:21
    faces,                \* the returned array, as a set of triples
    \* ---- map_colors: arguments
    values,               \* sequence of floats (hundredths), mesh.py:72
    vmin_arg,             \* the vmin passed in: None or a float
    vmax_arg,             \* the vmax passed in: None or a float
    cmap_name,
    robust,
    robust_pct,           \* a percentage, 0..50
    \* ---- map_colors: locals
    mc_pc,                \* "robust" | "minmax" | "epsilon" | "cmap" | "colors" | "done" | "raised"
    vmin,                 \* the local vmin as the code reassigns it
    vmax,                 \* the local vmax as the code reassigns it
    mc_error,             \* the exception raised, if any
    colors,               \* the returned ColorTable: a sequence of <<r, g, b>>
    \* ---- process_all: the directories and the arguments
    fs_cpcm,              \* input directory: [file -> "ok" | "malformed"] of its .cpcm
    fs_wrl,               \* output directory: the files whose .wrl exists
    fs_png,               \* output directory: the files whose .png exists
    color_by,
    cmap,
    force,
    off_screen,
    \* ---- process_all: locals
    pa_pc,                \* the statement process_all is at
    cpcm_files,           \* what is left of the sorted .cpcm listing, core.py:59
    wrl_files,            \* what is left of the sorted .wrl listing, core.py:94
    pa_error,             \* the exception raised, if any
    \* ---- process_all: what has been performed so far, per file
    parsed,               \* parse_cpcm returned
    built,                \* build_faces returned
    bounded,              \* map_colors resolved its bounds
    written,              \* write_vrml wrote the .wrl
    rendered,             \* render_wrl_to_png was called
    shot,                 \* the renderer wrote the .png
    \* ---- process_all: the calls made on the same directories
    pa_run,               \* 1 for the first call, 2 for the one that follows it
    wrl_at_call,          \* the .wrl files that existed when this call began
    png_at_call,          \* the .png files that existed when this call began
    prev_call             \* the arguments and the work of the call before this one

bfVars == <<points, surface_areas, sphere_owners, neighbor_radius, max_neighbors,
            neighbors_threshold, bf_pc, bf_i, neighbors, faces_set, faces>>

mcVars == <<values, vmin_arg, vmax_arg, cmap_name, robust, robust_pct, mc_pc, vmin,
            vmax, mc_error, colors>>

paArgs == <<color_by, cmap, force, off_screen>>

paCall == <<pa_run, wrl_at_call, png_at_call, prev_call>>

paVars == <<fs_cpcm, fs_wrl, fs_png, paArgs, paCall, pa_pc, cpcm_files, wrl_files, pa_error,
            parsed, built, bounded, written, rendered, shot>>

vars == <<bfVars, mcVars, paVars>>

\* what an operation leaves alone: the state of the other operations
notFaces == <<mcVars, paVars>>
notColors == <<bfVars, paVars>>
notProcess == <<bfVars, mcVars>>

-----------------------------------------------------------------------------
(* Bounds of the model *)

MaxPoints == 3
MaxCap == 3

Positions == {<<0, 0, 0>>, <<1, 0, 0>>, <<0, 1, 0>>, <<0, 0, 1>>, <<2, 0, 0>>}
AreaUnits == {1, 2}
Owners == {1, 2}
Radii == {1, 2}
Thresholds == {<<1, 2>>, <<1, 1>>}

NoValue == "None"

-----------------------------------------------------------------------------
(* build_faces, mesh.py:10-68 *)

npts == Cardinality(DOMAIN points)

Ids == DOMAIN points

\* squared Euclidean distance of two coordinate triples (np.linalg.norm, squared)
Dist2(p, q) ==
    (p[1] - q[1]) * (p[1] - q[1]) + (p[2] - q[2]) * (p[2] - q[2])
        + (p[3] - q[3]) * (p[3] - q[3])

D2(a, b) == Dist2(points[a], points[b])

\* tree.query_ball_point(points[i], neighbor_radius): every id within the radius,
\* the bound included, i itself among them
QueryBallPoint(i) == {j \in Ids : D2(i, j) <= neighbor_radius * neighbor_radius}

\* the owner test left out: every point in the radius is a neighbour
OwnerFilterNone(i, nbrs) == nbrs

\* nbrs = [j for j in nbrs if sphere_owners[j] == owner_i]
OwnerFilter(i, nbrs) == {j \in nbrs : sphere_owners[j] = sphere_owners[i]}

\* a truncation that forgets to sort by distance: any cap of the candidates
KeepAny(i, nbrs, cap) ==
    IF Cardinality(nbrs) > cap
    THEN {S \in SUBSET nbrs : Cardinality(S) = cap}
    ELSE {nbrs}

\* if len(nbrs) > max_neighbors: keep the max_neighbors first of argsort(dists),
\* with cap the value of max_neighbors.  argsort's order among equal distances
\* depends on the index's enumeration order, so every choice of cap candidates
\* that leaves no strictly closer candidate out is possible.
KeepClosest(i, nbrs, cap) ==
    IF Cardinality(nbrs) > cap
    THEN {S \in SUBSET nbrs :
            /\ Cardinality(S) = cap
            /\ \A x \in S : \A y \in nbrs \ S : D2(i, x) <= D2(i, y)}
    ELSE {nbrs}

\* the cap applied to everything in the radius, the owner test only afterwards:
\* points of other spheres take cap slots
NeighborListsCapFirst(i, cap) ==
    {OwnerFilter(i, S) : S \in KeepClosest(i, QueryBallPoint(i), cap)}

\* the neighbour lists the precomputation can store for vertex i under a cap,
\* mesh.py:26-32
NeighborLists(i, cap) == KeepClosest(i, OwnerFilter(i, QueryBallPoint(i)), cap)

\* one iteration of the precomputation loop, mesh.py:25-33
NeighborsStep ==
    /\ bf_pc = "neighbors"
    /\ bf_i < npts
    /\ \E nbrs \in NeighborLists(bf_i, max_neighbors) :
          neighbors' = [v \in 0..bf_i |-> IF v = bf_i THEN nbrs ELSE neighbors[v]]
    /\ bf_i' = bf_i + 1
    /\ UNCHANGED <<points, surface_areas, sphere_owners, neighbor_radius,
                   max_neighbors, neighbors_threshold, bf_pc, faces_set, faces,
                   notFaces>>

\* the loop is exhausted; the debug statistics (mesh.py:35-41) change nothing
NeighborsDone ==
    /\ bf_pc = "neighbors"
    /\ bf_i = npts
    /\ bf_pc' = "faces"
    /\ bf_i' = 0
    /\ UNCHANGED <<points, surface_areas, sphere_owners, neighbor_radius,
                   max_neighbors, neighbors_threshold, neighbors, faces_set, faces,
                   notFaces>>

\* dist(a, b) < thr * r_a only: the partner's radius forgotten
WithinThresholdOwnRadius(a, b) ==
    LET n == neighbors_threshold[1]
        d == neighbors_threshold[2]
    IN  d * d * D2(a, b) < n * n * surface_areas[a]

\* dist(a, b) <= thr * (r_a + r_b): the comparison not strict
WithinThresholdLe(a, b) ==
    LET n == neighbors_threshold[1]
        d == neighbors_threshold[2]
        qa == surface_areas[a]
        qb == surface_areas[b]
        L == d * d * D2(a, b) - n * n * (qa + qb)
    IN  L <= 0 \/ L * L <= 4 * n * n * n * n * qa * qb

\* dist(a, b) < neighbors_threshold * (r_a + r_b), r = sqrt(area / pi) = sqrt(q).
\* With thr = n/d > 0: d*dist < n*(sqrt qa + sqrt qb); both sides are >= 0, so
\* squared: d^2*D2 < n^2*(qa + qb + 2*sqrt(qa*qb)), that is
\* L < 2*n^2*sqrt(qa*qb) for L = d^2*D2 - n^2*(qa+qb), which holds when L < 0
\* and otherwise exactly when L^2 < 4*n^4*qa*qb.
WithinThreshold(a, b) ==
    LET n == neighbors_threshold[1]
        d == neighbors_threshold[2]
        qa == surface_areas[a]
        qb == surface_areas[b]
        L == d * d * D2(a, b) - n * n * (qa + qb)
    IN  L < 0 \/ L * L < 4 * n * n * n * n * qa * qb

\* tuple(sorted([a, b, c]))
Sort3(a, b, c) ==
    LET lo == IF a <= b /\ a <= c THEN a ELSE IF b <= c THEN b ELSE c
        hi == IF a >= b /\ a >= c THEN a ELSE IF b >= c THEN b ELSE c
    IN  <<lo, a + b + c - lo - hi, hi>>

\* rule A with the test of the edge i-k left out
RuleAOneEdge(i, j, k) == WithinThreshold(i, j)

\* mesh.py:59
RuleA(i, j, k) == WithinThreshold(i, j) /\ WithinThreshold(i, k)

\* mesh.py:63
RuleB(i, j, k) == WithinThreshold(j, k) /\ WithinThreshold(i, k)

\* the triples one iteration of the outer loop adds, over neighbour lists nb:
\* for j in neighbors[i] (j != i), for k in neighbors[j] (k != i)
FacesOfVertex(i, nb) ==
    {Sort3(t[1], t[2], t[3]) :
        t \in {u \in {i} \X Ids \X Ids :
                 /\ u[2] \in nb[i] /\ u[2] # i
                 /\ u[3] \in nb[u[2]] /\ u[3] # i
                 /\ (RuleA(i, u[2], u[3]) \/ RuleB(i, u[2], u[3]))}}

\* one iteration of the outer face loop, mesh.py:44-64
FacesStep ==
    /\ bf_pc = "faces"
    /\ bf_i < npts
    /\ faces_set' = faces_set \cup FacesOfVertex(bf_i, neighbors)
    /\ bf_i' = bf_i + 1
    /\ UNCHANGED <<points, surface_areas, sphere_owners, neighbor_radius,
                   max_neighbors, neighbors_threshold, bf_pc, neighbors, faces,
                   notFaces>>

\* faces = np.array(list(faces_set)); return faces, mesh.py:66-68
ReturnFaces ==
    /\ bf_pc = "faces"
    /\ bf_i = npts
    /\ faces' = faces_set
    /\ bf_pc' = "done"
    /\ UNCHANGED <<points, surface_areas, sphere_owners, neighbor_radius,
                   max_neighbors, neighbors_threshold, bf_i, neighbors, faces_set,
                   notFaces>>

\* a call of build_faces with arguments that meet its preconditions:
\* equal lengths, neighbor_radius > 0, max_neighbors >= 1, neighbors_threshold > 0
InitFaces ==
    /\ \E n \in 0..MaxPoints :
          /\ points \in [0..(n - 1) -> Positions]
          /\ surface_areas \in [0..(n - 1) -> AreaUnits]
          /\ sphere_owners \in [0..(n - 1) -> Owners]
    /\ neighbor_radius \in Radii
    /\ max_neighbors \in 1..MaxCap
    /\ neighbors_threshold \in Thresholds
    /\ bf_pc = "neighbors"
    /\ bf_i = 0
    /\ neighbors = <<>>
    /\ faces_set = {}
    /\ faces = NoValue

NextFaces == NeighborsStep \/ NeighborsDone \/ FacesStep \/ ReturnFaces

-----------------------------------------------------------------------------
(* map_colors, mesh.py:71-101 *)

(* Floats.  A float is <<"num", c, e>>: the double nearest to c/100 + e * 1e-12,
   with e in {0, 1}; every argument has e = 0 and c a multiple of 100, so that
   the percentiles' interpolation is exact in hundredths.  <<"nan", 0, 0>> is
   NaN and <<"none", 0, 0>> is Python's None. *)
None == <<"none", 0, 0>>
NaN == <<"nan", 0, 0>>
Num(c) == <<"num", c, 0>>

MaxValues == 3

ValueChoices == {0, 100, 300, 2000000}
BoundChoices == {None, Num(0), Num(100), Num(300)}
PctChoices == {1, 50}
CmapNames == {"jet", "viridis", "bogus"}

\* the lookup tables plt.get_cmap knows, channels in millionths; of the 256
\* entries of a table the first, the middle and the last are kept
CmapTable(name) ==
    IF name = "viridis"
    THEN << <<267004, 4874, 329415>>, <<127568, 566949, 550556>>,
            <<993248, 906157, 143936>> >>
    ELSE << <<0, 0, 500000>>, <<490196, 1000000, 477546>>, <<500000, 0, 0>> >>

KnownCmaps == {"jet", "viridis"}

\* Python's ==: NaN equals nothing
FloatEq(a, b) == a[1] = "num" /\ b[1] = "num" /\ a = b

\* Python's <
FloatLt(a, b) ==
    /\ a[1] = "num" /\ b[1] = "num"
    /\ (a[2] < b[2] \/ (a[2] = b[2] /\ a[3] < b[3]))

\* x + 1e-12 in IEEE double arithmetic (round to nearest): from 2^14 = 16384
\* upwards, and below -16384, neighbouring doubles are 3.6e-12 or more apart and
\* the sum rounds back to x
AddEpsilon(x) ==
    IF x[2] >= 1638400 \/ x[2] < -1638400 THEN x ELSE <<"num", x[2], 1>>

\* the k-th smallest (k = 1..n) of a non-empty sequence
KthSmallest(vals, k) ==
    CHOOSE x \in {vals[i] : i \in DOMAIN vals} :
        /\ Cardinality({i \in DOMAIN vals : vals[i] < x}) < k
        /\ k <= Cardinality({i \in DOMAIN vals : vals[i] <= x})

\* np.percentile(vals, q) of a non-empty array, linear interpolation
Percentile(vals, q) ==
    LET n == Len(vals)
        pos == q * (n - 1)
        f == pos \div 100
        g == pos % 100
        lo == KthSmallest(vals, f + 1)
        hi == KthSmallest(vals, IF f + 2 <= n THEN f + 2 ELSE n)
    IN  Num(lo + ((hi - lo) * g) \div 100)

ArrayMin(vals) == Num(KthSmallest(vals, 1))

ArrayMax(vals) == Num(KthSmallest(vals, Len(vals)))

\* mesh.py:85: if robust and (vmin is None or vmax is None)
NeedsPercentile == robust /\ (vmin = None \/ vmax = None)

\* mesh.py:85-91.  np.percentile of an empty array raises IndexError or returns
\* NaN, by numpy version.
McRobust ==
    /\ mc_pc = "robust"
    /\ \/ /\ NeedsPercentile /\ Len(values) > 0
          /\ vmin' = IF vmin = None THEN Percentile(values, robust_pct) ELSE vmin
          /\ vmax' = IF vmax = None THEN Percentile(values, 100 - robust_pct) ELSE vmax
          /\ mc_pc' = "minmax"
          /\ UNCHANGED mc_error
       \/ /\ NeedsPercentile /\ Len(values) = 0
          /\ \/ /\ mc_pc' = "raised" /\ mc_error' = "IndexError"
                /\ UNCHANGED <<vmin, vmax>>
             \/ /\ vmin' = IF vmin = None THEN NaN ELSE vmin
                /\ vmax' = IF vmax = None THEN NaN ELSE vmax
                /\ mc_pc' = "minmax"
                /\ UNCHANGED mc_error
       \/ /\ ~NeedsPercentile
          /\ mc_pc' = "minmax"
          /\ UNCHANGED <<vmin, vmax, mc_error>>
    /\ UNCHANGED <<values, vmin_arg, vmax_arg, cmap_name, robust, robust_pct, colors,
                   notColors>>

\* mesh.py:92-95.  min() and max() of an empty array raise ValueError.
McMinMax ==
    /\ mc_pc = "minmax"
    /\ \/ /\ (vmin = None \/ vmax = None) /\ Len(values) = 0
          /\ mc_pc' = "raised" /\ mc_error' = "ValueError"
          /\ UNCHANGED <<vmin, vmax>>
       \/ /\ ~((vmin = None \/ vmax = None) /\ Len(values) = 0)
          /\ vmin' = IF vmin = None THEN ArrayMin(values) ELSE vmin
          /\ vmax' = IF vmax = None THEN ArrayMax(values) ELSE vmax
          /\ mc_pc' = "epsilon"
          /\ UNCHANGED mc_error
    /\ UNCHANGED <<values, vmin_arg, vmax_arg, cmap_name, robust, robust_pct, colors,
                   notColors>>

\* mesh.py:96-97: if vmin == vmax: vmax = vmin + 1e-12
McEpsilon ==
    /\ mc_pc = "epsilon"
    /\ vmax' = IF FloatEq(vmin, vmax) THEN AddEpsilon(vmin) ELSE vmax
    /\ mc_pc' = "cmap"
    /\ UNCHANGED <<values, vmin_arg, vmax_arg, cmap_name, robust, robust_pct, vmin,
                   mc_error, colors, notColors>>

\* mesh.py:98-99: Normalize(vmin, vmax) is only constructed; plt.get_cmap raises
\* ValueError for a name it does not know
McGetCmap ==
    /\ mc_pc = "cmap"
    /\ \/ /\ cmap_name \notin KnownCmaps
          /\ mc_pc' = "raised" /\ mc_error' = "ValueError"
       \/ /\ cmap_name \in KnownCmaps
          /\ mc_pc' = "colors"
          /\ UNCHANGED mc_error
    /\ UNCHANGED <<values, vmin_arg, vmax_arg, cmap_name, robust, robust_pct, vmin,
                   vmax, colors, notColors>>

\* the table index cmap() reads for the value c (hundredths) normalized between
\* the bounds lo < hi: int(x * N) for x = (v - vmin) / (vmax - vmin) in [0, 1),
\* the last entry for x >= 1 (x = 1 and the over color), the first for x < 0 (the
\* under color)
LutIndex(c, lo, hi, n) ==
    IF c < lo[2] THEN 1
    ELSE IF hi[2] = lo[2] THEN (IF c = lo[2] THEN 1 ELSE n)
    ELSE IF c >= hi[2] THEN n
    ELSE ((c - lo[2]) * n) \div (hi[2] - lo[2]) + 1

\* nearest integer to 255 * c, c in millionths
QuantizeRound(c) == (c * 255 + 500000) \div 1000000

\* (channel * 255).astype(np.uint8): the fraction is cut off
Quantize(c) == (c * 255) \div 1000000

\* the color of one value: colormap lookup, three channels, quantized
ColorOf(c, lo, hi, name) ==
    LET table == CmapTable(name)
        rgb == table[IF FloatEq(lo, hi) THEN 1 ELSE LutIndex(c, lo, hi, Len(table))]
    IN  <<Quantize(rgb[1]), Quantize(rgb[2]), Quantize(rgb[3])>>

\* mesh.py:100-101.  norm(vals) fills 0 when vmin == vmax and raises ValueError
\* when vmin > vmax; an empty array passes through whatever the bounds are.
McColors ==
    /\ mc_pc = "colors"
    /\ \/ /\ FloatLt(vmax, vmin)
          /\ mc_pc' = "raised" /\ mc_error' = "ValueError"
          /\ UNCHANGED colors
       \/ /\ ~FloatLt(vmax, vmin)
          /\ colors' = [i \in DOMAIN values |-> ColorOf(values[i], vmin, vmax, cmap_name)]
          /\ mc_pc' = "done"
          /\ UNCHANGED mc_error
    /\ UNCHANGED <<values, vmin_arg, vmax_arg, cmap_name, robust, robust_pct, vmin, vmax,
                   notColors>>

\* a call of map_colors
InitColors ==
    /\ \E n \in 0..MaxValues : values \in [1..n -> ValueChoices]
    /\ vmin_arg \in BoundChoices
    /\ vmax_arg \in BoundChoices
    /\ cmap_name \in CmapNames
    /\ robust \in BOOLEAN
    /\ robust_pct \in PctChoices
    /\ mc_pc = "robust"
    /\ vmin = vmin_arg
    /\ vmax = vmax_arg
    /\ mc_error = "none"
    /\ colors = <<>>

NextColors == McRobust \/ McMinMax \/ McEpsilon \/ McGetCmap \/ McColors


-----------------------------------------------------------------------------
(* process_all, core.py:34-117 *)

MaxFiles == 2

\* file stems; sorted() orders them as the integers are ordered
FileIds == 1..MaxFiles

ColorByChoices == {"charge", "CHARGE", "potentials", "surface-charge", "bogus"}

\* str(color_by).lower()
Lower(str) == IF str = "CHARGE" THEN "charge" ELSE str

\* core.py:79-83
Modes == {"potential", "potentials", "charge", "charges", "surface-charge",
          "surface_charge", "sigma"}

Min(S) == CHOOSE x \in S : \A y \in S : x <= y

RECURSIVE SortedList(_)
\* sorted([...]) of a set of file stems
SortedList(S) == IF S = {} THEN <<>> ELSE <<Min(S)>> \o SortedList(S \ {Min(S)})

\* core.py:54-61: the output directory is made, the .cpcm files are listed
ListCpcm ==
    /\ pa_pc = "start"
    /\ cpcm_files' = SortedList(DOMAIN fs_cpcm)
    /\ pa_pc' = "for_cpcm"
    /\ UNCHANGED <<fs_cpcm, fs_wrl, fs_png, paArgs, paCall, wrl_files, pa_error, parsed,
                   built, bounded, written, rendered, shot, notProcess>>

\* the loop head without the test for an existing .wrl: every file is rebuilt
ForCpcmNoSkip ==
    /\ pa_pc = "for_cpcm"
    /\ \/ /\ cpcm_files = <<>>
          /\ pa_pc' = "list_wrl"
          /\ UNCHANGED cpcm_files
       \/ /\ cpcm_files # <<>>
          /\ TRUE
          /\ pa_pc' = "parse"
          /\ UNCHANGED cpcm_files
       \/ /\ cpcm_files # <<>>
          /\ FALSE
          /\ cpcm_files' = Tail(cpcm_files)
          /\ UNCHANGED pa_pc
    /\ UNCHANGED <<fs_cpcm, fs_wrl, fs_png, paArgs, paCall, wrl_files, pa_error, parsed,
                   built, bounded, written, rendered, shot, notProcess>>

\* core.py:62-66 and 90-92: the loop head and the test that skips an existing .wrl
ForCpcm ==
    /\ pa_pc = "for_cpcm"
    /\ \/ /\ cpcm_files = <<>>
          /\ pa_pc' = "list_wrl"
          /\ UNCHANGED cpcm_files
       \/ /\ cpcm_files # <<>>
          /\ Head(cpcm_files) \notin fs_wrl \/ force
          /\ pa_pc' = "parse"
          /\ UNCHANGED cpcm_files
       \/ /\ cpcm_files # <<>>
          /\ ~(Head(cpcm_files) \notin fs_wrl \/ force)
          /\ cpcm_files' = Tail(cpcm_files)
          /\ UNCHANGED pa_pc
    /\ UNCHANGED <<fs_cpcm, fs_wrl, fs_png, paArgs, paCall, wrl_files, pa_error, parsed,
                   built, bounded, written, rendered, shot, notProcess>>

\* core.py:69: parse_cpcm raises ValueError on a malformed file (parsers.py:66-67)
ParseCpcm ==
    /\ pa_pc = "parse"
    /\ \/ /\ fs_cpcm[Head(cpcm_files)] = "malformed"
          /\ pa_pc' = "raised" /\ pa_error' = "parse_cpcm"
          /\ UNCHANGED parsed
       \/ /\ fs_cpcm[Head(cpcm_files)] = "ok"
          /\ parsed' = parsed \cup {Head(cpcm_files)}
          /\ pa_pc' = "build_faces"
          /\ UNCHANGED pa_error
    /\ UNCHANGED <<fs_cpcm, fs_wrl, fs_png, paArgs, paCall, cpcm_files, wrl_files, built,
                   bounded, written, rendered, shot, notProcess>>

\* core.py:70-77: the neighbour search and the face loop of build_faces
BuildFaces ==
    /\ pa_pc = "build_faces"
    /\ built' = built \cup {Head(cpcm_files)}
    /\ pa_pc' = "color_by"
    /\ UNCHANGED <<fs_cpcm, fs_wrl, fs_png, paArgs, paCall, cpcm_files, wrl_files, pa_error,
                   parsed, bounded, written, rendered, shot, notProcess>>

\* core.py:78-87: the selector is looked at only now
SelectValues ==
    /\ pa_pc = "color_by"
    /\ \/ /\ Lower(color_by) \in Modes
          /\ pa_pc' = "map_colors"
          /\ UNCHANGED pa_error
       \/ /\ Lower(color_by) \notin Modes
          /\ pa_pc' = "raised" /\ pa_error' = "color_by"
    /\ UNCHANGED <<fs_cpcm, fs_wrl, fs_png, paArgs, paCall, cpcm_files, wrl_files, parsed,
                   built, bounded, written, rendered, shot, notProcess>>

\* core.py:88 into mesh.py:85-97: map_colors resolves vmin and vmax first (a
\* well-formed file holds at least one point, so the bounds exist)
MapColorsBounds ==
    /\ pa_pc = "map_colors"
    /\ bounded' = bounded \cup {Head(cpcm_files)}
    /\ pa_pc' = "get_cmap"
    /\ UNCHANGED <<fs_cpcm, fs_wrl, fs_png, paArgs, paCall, cpcm_files, wrl_files, pa_error,
                   parsed, built, written, rendered, shot, notProcess>>

\* mesh.py:98-101: then plt.get_cmap raises on a name it does not know
MapColorsCmap ==
    /\ pa_pc = "get_cmap"
    /\ \/ /\ cmap \in KnownCmaps
          /\ pa_pc' = "write_vrml"
          /\ UNCHANGED pa_error
       \/ /\ cmap \notin KnownCmaps
          /\ pa_pc' = "raised" /\ pa_error' = "cmap"
    /\ UNCHANGED <<fs_cpcm, fs_wrl, fs_png, paArgs, paCall, cpcm_files, wrl_files, parsed,
                   built, bounded, written, rendered, shot, notProcess>>

\* core.py:89: the .wrl is written (io.py:28-53), and the loop goes on
WriteVrml ==
    /\ pa_pc = "write_vrml"
    /\ fs_wrl' = fs_wrl \cup {Head(cpcm_files)}
    /\ written' = written \cup {Head(cpcm_files)}
    /\ cpcm_files' = Tail(cpcm_files)
    /\ pa_pc' = "for_cpcm"
    /\ UNCHANGED <<fs_cpcm, fs_png, paArgs, paCall, wrl_files, pa_error, parsed, built,
                   bounded, rendered, shot, notProcess>>

\* core.py:94-96: the .wrl files of the output directory are listed
ListWrl ==
    /\ pa_pc = "list_wrl"
    /\ wrl_files' = SortedList(fs_wrl)
    /\ pa_pc' = "for_wrl"
    /\ UNCHANGED <<fs_cpcm, fs_wrl, fs_png, paArgs, paCall, cpcm_files, pa_error, parsed,
                   built, bounded, written, rendered, shot, notProcess>>

\* core.py:97-117 with render.py:75-84: an existing .png is skipped off-screen
\* unless forced; the renderer writes the screenshot only off-screen.  The VRML
\* import and the plotter (render.py:24-73) are taken to succeed.
ForWrl ==
    /\ pa_pc = "for_wrl"
    /\ \/ /\ wrl_files = <<>>
          /\ pa_pc' = "returned"
          /\ UNCHANGED <<wrl_files, fs_png, rendered, shot>>
       \/ /\ wrl_files # <<>>
          /\ Head(wrl_files) \in fs_png /\ ~force /\ off_screen
          /\ wrl_files' = Tail(wrl_files)
          /\ UNCHANGED <<pa_pc, fs_png, rendered, shot>>
       \/ /\ wrl_files # <<>>
          /\ ~(Head(wrl_files) \in fs_png /\ ~force /\ off_screen)
          /\ rendered' = rendered \cup {Head(wrl_files)}
          /\ fs_png' = IF off_screen THEN fs_png \cup {Head(wrl_files)} ELSE fs_png
          /\ shot' = IF off_screen THEN shot \cup {Head(wrl_files)} ELSE shot
          /\ wrl_files' = Tail(wrl_files)
          /\ UNCHANGED pa_pc
    /\ UNCHANGED <<fs_cpcm, fs_wrl, paArgs, paCall, cpcm_files, pa_error, parsed, built,
                   bounded, written, notProcess>>

\* a call of process_all on an input and an output directory
\* no call came before the first one
NoCall == [force |-> FALSE, off_screen |-> FALSE, written |-> {}, rendered |-> {},
           shot |-> {}]

InitProcess ==
    /\ \E present \in SUBSET FileIds : fs_cpcm \in [present -> {"ok", "malformed"}]
    /\ fs_wrl \in SUBSET FileIds
    /\ fs_png \in SUBSET FileIds
    /\ color_by \in ColorByChoices
    /\ cmap \in CmapNames
    /\ force \in BOOLEAN
    /\ off_screen \in BOOLEAN
    /\ pa_pc = "start"
    /\ cpcm_files = <<>>
    /\ wrl_files = <<>>
    /\ pa_error = "none"
    /\ parsed = {} /\ built = {} /\ bounded = {} /\ written = {}
    /\ rendered = {} /\ shot = {}
    /\ pa_run = 1
    /\ wrl_at_call = fs_wrl
    /\ png_at_call = fs_png
    /\ prev_call = NoCall

\* process_all returned and is called again on the same input and output
\* directories, force and off_screen chosen anew: its locals start afresh, the
\* files are the ones the first call left
CallAgain ==
    /\ pa_pc = "returned"
    /\ pa_run = 1
    /\ pa_run' = 2
    /\ force' \in BOOLEAN
    /\ off_screen' \in BOOLEAN
    /\ prev_call' = [force |-> force, off_screen |-> off_screen,
                     written |-> written, rendered |-> rendered, shot |-> shot]
    /\ wrl_at_call' = fs_wrl
    /\ png_at_call' = fs_png
    /\ pa_pc' = "start"
    /\ cpcm_files' = <<>> /\ wrl_files' = <<>>
    /\ parsed' = {} /\ built' = {} /\ bounded' = {} /\ written' = {}
    /\ rendered' = {} /\ shot' = {}
    /\ UNCHANGED <<fs_cpcm, fs_wrl, fs_png, color_by, cmap, pa_error, notProcess>>

NextProcess ==
    \/ ListCpcm \/ ForCpcm \/ ParseCpcm \/ BuildFaces \/ SelectValues
    \/ MapColorsBounds \/ MapColorsCmap \/ WriteVrml \/ ListWrl \/ ForWrl
    \/ CallAgain

-----------------------------------------------------------------------------
(* The specifications: one call of one operation, the others left idle *)

IdleFaces ==
    /\ points = <<>> /\ surface_areas = <<>> /\ sphere_owners = <<>>
    /\ neighbor_radius = 1 /\ max_neighbors = 1 /\ neighbors_threshold = <<1, 1>>
    /\ bf_pc = "idle" /\ bf_i = 0 /\ neighbors = <<>> /\ faces_set = {}
    /\ faces = NoValue

IdleColors ==
    /\ values = <<>> /\ vmin_arg = None /\ vmax_arg = None /\ cmap_name = "jet"
    /\ robust = FALSE /\ robust_pct = 1 /\ mc_pc = "idle" /\ vmin = None
    /\ vmax = None /\ mc_error = "none" /\ colors = <<>>

IdleProcess ==
    /\ fs_cpcm = <<>> /\ fs_wrl = {} /\ fs_png = {} /\ color_by = "charge"
    /\ cmap = "jet" /\ force = FALSE /\ off_screen = TRUE /\ pa_pc = "idle"
    /\ cpcm_files = <<>> /\ wrl_files = <<>> /\ pa_error = "none"
    /\ parsed = {} /\ built = {} /\ bounded = {} /\ written = {}
    /\ rendered = {} /\ shot = {}
    /\ pa_run = 0 /\ wrl_at_call = {} /\ png_at_call = {} /\ prev_call = NoCall

InitFacesCall == InitFaces /\ IdleColors /\ IdleProcess

SpecFaces == InitFacesCall /\ [][NextFaces]_vars

InitColorsCall == InitColors /\ IdleFaces /\ IdleProcess

SpecColors == InitColorsCall /\ [][NextColors]_vars

InitProcessCall == InitProcess /\ IdleFaces /\ IdleColors

SpecProcess == InitProcessCall /\ [][NextProcess]_vars

-----------------------------------------------------------------------------
(* Claims about build_faces, checked under SpecFaces *)

Returned == bf_pc = "done"

SameOwner3(a, b, c) ==
    sphere_owners[a] = sphere_owners[b] /\ sphere_owners[b] = sphere_owners[c]

InRadius(a, b) == D2(a, b) <= neighbor_radius * neighbor_radius

\* dist(a, b) < neighbors_threshold * (sqrt(q_a) + sqrt(q_b)), as the claims state it
BelowRadiusSum(a, b) ==
    LET n == neighbors_threshold[1]
        d == neighbors_threshold[2]
        s == surface_areas[a] + surface_areas[b]
        L == d * d * D2(a, b) - n * n * s
    IN  \/ d * d * D2(a, b) < n * n * s
        \/ L * L < 4 * n * n * n * n * surface_areas[a] * surface_areas[b]

\* the same-owner in-radius candidates of vertex i
Candidates(i) ==
    {j \in Ids : InRadius(i, j) /\ sphere_owners[j] = sphere_owners[i]}

\* C1: every returned face consists of three pairwise distinct vertex ids, each
\* in [0, N)
C1_FacesDistinctIds ==
    Returned =>
        \A f \in faces :
            /\ {f[1], f[2], f[3]} \subseteq 0..(npts - 1)
            /\ f[1] # f[2] /\ f[1] # f[3] /\ f[2] # f[3]

\* C2: with fewer than three points build_faces returns an empty FaceSet
C2_DegenerateInputEmpty == (Returned /\ npts < 3) => faces = {}

\* C3: all three vertices of every returned face share one owner
C3_OwnershipPartition ==
    Returned => \A f \in faces : SameOwner3(f[1], f[2], f[3])

\* C3 witness: a face was returned although a vertex of another owner lies within
\* neighbor_radius of one of its vertices
C3_Witness ==
    /\ Returned
    /\ \E f \in faces : \E b \in Ids :
          sphere_owners[b] # sphere_owners[f[1]] /\ InRadius(f[1], b)

C4_Eligible(a, b, c) ==
    /\ a # b /\ a # c /\ b # c
    /\ SameOwner3(a, b, c)
    /\ InRadius(a, b) /\ InRadius(a, c) /\ InRadius(b, c)
    /\ \A x \in {a, b, c} : {a, b, c} \subseteq neighbors[x]
    /\ BelowRadiusSum(a, b) /\ BelowRadiusSum(a, c) /\ BelowRadiusSum(b, c)

\* C4: three distinct same-owner vertices, pairwise within neighbor_radius, kept in
\* each other's neighbour lists and pairwise below the radius-sum threshold, form
\* a returned face
C4_TripleReturned ==
    Returned =>
        \A a, b, c \in Ids : C4_Eligible(a, b, c) => Sort3(a, b, c) \in faces

\* C4 witness: such a triple exists in a finished call
C4_Witness ==
    /\ Returned
    /\ \E a, b, c \in Ids : C4_Eligible(a, b, c) /\ Sort3(a, b, c) \in faces

\* the squared side of the triangle 0, 1, 2 when it is equilateral
C5_Side2 == D2(0, 1)

C5_Case ==
    /\ Returned
    /\ npts = 3
    /\ SameOwner3(0, 1, 2)
    /\ surface_areas[0] = surface_areas[1] /\ surface_areas[1] = surface_areas[2]
    /\ D2(0, 1) = D2(0, 2) /\ D2(0, 2) = D2(1, 2) /\ C5_Side2 > 0
    /\ C5_Side2 <= neighbor_radius * neighbor_radius
    /\ max_neighbors >= 3

\* neighbors_threshold * 2r > s, squared: 4 n^2 q > d^2 s^2
C5_ThresholdAboveSide ==
    4 * neighbors_threshold[1] * neighbors_threshold[1] * surface_areas[0]
        > neighbors_threshold[2] * neighbors_threshold[2] * C5_Side2

\* C5: an equilateral same-owner triangle of side s and equal patch radius r is
\* returned if and only if neighbors_threshold * 2r > s
C5_ThresholdBoundary ==
    C5_Case => (<<0, 1, 2>> \in faces <=> C5_ThresholdAboveSide)

\* C5 witness: the boundary neighbors_threshold * 2r = s, where the triangle is
\* not returned
C5_Witness ==
    /\ C5_Case
    /\ 4 * neighbors_threshold[1] * neighbors_threshold[1] * surface_areas[0]
          = neighbors_threshold[2] * neighbors_threshold[2] * C5_Side2
    /\ <<0, 1, 2>> \notin faces

\* no two candidates of a vertex lie at the same distance from it
NoTies ==
    \A i \in Ids : \A j, k \in Candidates(i) : j # k => D2(i, j) # D2(i, k)

\* the neighbour lists a call with the given cap stores, when each vertex has
\* exactly one possible list
ListsAt(cap) == [v \in Ids |-> CHOOSE S \in NeighborLists(v, cap) : TRUE]

\* the FaceSet the face loop builds over the neighbour lists nb
FacesOver(nb) == UNION {FacesOfVertex(i, nb) : i \in Ids}

\* C6: without distance ties, the neighbour lists and the FaceSet of a call with
\* cap m1 are contained in those of every call with a cap m2 >= m1 on the same
\* points, areas, owners, radius and threshold (whose lists are then determined)
C6_MonotonicCap ==
    (Returned /\ NoTies) =>
        \A m2 \in max_neighbors..MaxCap :
            /\ \A v \in Ids : \A S \in NeighborLists(v, m2) :
                  S = ListsAt(m2)[v] /\ neighbors[v] \subseteq S
            /\ faces \subseteq FacesOver(ListsAt(m2))

\* C6 witness: a tie-free call in which the cap truncated a list, a face was
\* returned, and a larger cap yields a face the smaller did not
C6_Witness ==
    /\ Returned /\ NoTies
    /\ \E v \in Ids : Cardinality(Candidates(v)) > max_neighbors
    /\ faces # {}
    /\ \E m2 \in max_neighbors..MaxCap : FacesOver(ListsAt(m2)) \ faces # {}

-----------------------------------------------------------------------------
(* Claims about map_colors, checked under SpecColors *)

McEnded == mc_pc \in {"done", "raised"}

\* C7: without explicit vmin/vmax (and with a known colormap) map_colors returns,
\* for every length n >= 0, exactly n triples of channels in 0..255, and raises
\* nothing
C7_ColorsTotal ==
    (McEnded /\ vmin_arg = None /\ vmax_arg = None /\ cmap_name \in KnownCmaps) =>
        /\ mc_pc = "done"
        /\ Len(colors) = Len(values)
        /\ \A i \in DOMAIN colors : \A ch \in 1..3 : colors[i][ch] \in 0..255

\* the colormap channel (millionths) behind the output channel ch of value i
C8_Channel(i, ch) ==
    CmapTable(cmap_name)[IF FloatEq(vmin, vmax) THEN 1
                         ELSE LutIndex(values[i], vmin, vmax,
                                       Len(CmapTable(cmap_name)))][ch]

\* C8 as stated: every output channel is the integer nearest to 255 * c
C8_QuantizeRounds ==
    mc_pc = "done" =>
        \A i \in DOMAIN colors : \A ch \in 1..3 :
            LET x == 255 * C8_Channel(i, ch)
                k == colors[i][ch]
            IN  2 * (x - k * 1000000) <= 1000000 /\ 2 * (k * 1000000 - x) <= 1000000

\* C8 amended: every output channel is 255 * c with its fraction cut off,
\* floor(255 * c)
C8_QuantizeTruncates ==
    mc_pc = "done" =>
        \A i \in DOMAIN colors : \A ch \in 1..3 :
            LET x == 255 * C8_Channel(i, ch)
                k == colors[i][ch]
            IN  k * 1000000 <= x /\ x < (k + 1) * 1000000

\* C8 witness: a returned channel whose 255 * c has a fraction above one half, so
\* that cutting and rounding differ
C8_Witness ==
    /\ mc_pc = "done"
    /\ \E i \in DOMAIN colors : \E ch \in 1..3 :
          2 * (255 * C8_Channel(i, ch) - colors[i][ch] * 1000000) > 1000000

\* the bounds as C9 resolves them, before the epsilon step
C9_ResolvedVmin ==
    IF vmin_arg # None THEN vmin_arg
    ELSE IF robust THEN Percentile(values, robust_pct) ELSE ArrayMin(values)

C9_ResolvedVmax ==
    IF vmax_arg # None THEN vmax_arg
    ELSE IF robust THEN Percentile(values, 100 - robust_pct) ELSE ArrayMax(values)

\* C9: for non-empty values, an explicit bound is used unchanged, an unset bound
\* is the percentile (robust) or the min/max (not robust); after that, equal
\* bounds have vmax raised, so that the bounds used for normalization always
\* differ, and vmin is never changed
C9_BoundResolution ==
    Len(values) > 0 =>
        /\ mc_pc = "epsilon" => (vmin = C9_ResolvedVmin /\ vmax = C9_ResolvedVmax)
        /\ mc_pc \in {"cmap", "colors", "done"} =>
              /\ vmin = C9_ResolvedVmin
              /\ ~FloatEq(vmin, vmax)
              /\ C9_ResolvedVmin # C9_ResolvedVmax => vmax = C9_ResolvedVmax
              /\ C9_ResolvedVmin = C9_ResolvedVmax => FloatLt(vmin, vmax)

-----------------------------------------------------------------------------
(* Claims about process_all, checked under SpecProcess *)

Unsupported == Lower(color_by) \notin Modes \/ cmap \notin KnownCmaps

\* C10: with an unrecognized color_by or colormap name no parsing, face building
\* or bound computation is ever performed for any file, and the call never
\* returns normally
C10_RejectedBeforeComputation ==
    Unsupported =>
        /\ parsed = {} /\ built = {} /\ bounded = {}
        /\ pa_pc # "returned"

-----------------------------------------------------------------------------
(* Further claims about build_faces, checked under SpecFaces *)

Precomputed == bf_pc \in {"faces", "done"}

\* the smaller of two numbers
C11_Least(a, b) == IF a <= b THEN a ELSE b

\* C11: after the precomputation every stored neighbour list holds only
\* same-owner points within neighbor_radius, has at most max_neighbors members,
\* and the cap acts on the owner-filtered candidates: the list has as many
\* members as the cap allows, and no discarded candidate is strictly closer than
\* a kept member
C11_NeighborLists ==
    Precomputed =>
        \A v \in Ids :
            /\ \A j \in neighbors[v] :
                  InRadius(v, j) /\ sphere_owners[j] = sphere_owners[v]
            /\ Cardinality(neighbors[v]) <= max_neighbors
            /\ Cardinality(neighbors[v])
                  = C11_Least(Cardinality(Candidates(v)), max_neighbors)
            /\ \A x \in Candidates(v) \ neighbors[v] : \A y \in neighbors[v] :
                  ~(D2(v, x) < D2(v, y))

\* C11 witness: a list was truncated to the cap while a point of another sphere
\* lay within the radius, closer than a discarded candidate
C11_Witness ==
    /\ Precomputed
    /\ \E v \in Ids :
          /\ Cardinality(Candidates(v)) > max_neighbors
          /\ Cardinality(neighbors[v]) = max_neighbors
          /\ \E b \in Ids : \E x \in Candidates(v) \ neighbors[v] :
                /\ sphere_owners[b] # sphere_owners[v]
                /\ InRadius(v, b)
                /\ D2(v, b) < D2(v, x)

\* the pairs of positions of a face
C12_Pairs == {<<1, 2>>, <<1, 3>>, <<2, 3>>}

\* C12 as stated: for every returned face, every pair (a, b) of its vertices
\* satisfies dist(a, b) < neighbors_threshold * (r_a + r_b)
C12_NoLongEdges ==
    Returned =>
        \A f \in faces : \A p \in C12_Pairs : BelowRadiusSum(f[p[1]], f[p[2]])

\* C12: every returned face has a vertex whose two edges to the other two
\* entries both satisfy dist(a, b) < neighbors_threshold * (r_a + r_b); only the
\* edge opposite to that vertex is untested
C12_AtMostOneLongEdge ==
    Returned =>
        \A f \in faces :
            \E x \in 1..3 : \A y \in (1..3) \ {x} : BelowRadiusSum(f[x], f[y])

\* C12 witness: a returned face of three distinct vertices with an edge that
\* does not satisfy the radius-sum threshold
C12_Witness ==
    /\ Returned
    /\ \E f \in faces :
          /\ f[1] # f[2] /\ f[2] # f[3] /\ f[1] # f[3]
          /\ \E p \in C12_Pairs : ~BelowRadiusSum(f[p[1]], f[p[2]])

-----------------------------------------------------------------------------
(* Further claims about process_all, checked under SpecProcess *)

PaReturned == pa_pc = "returned"

\* with force = False a .wrl that existed when the call began is never parsed
\* for, rebuilt or rewritten
C13_WrlKept == ~force => (parsed \cup built \cup written) \cap wrl_at_call = {}

\* with force = False a .png that existed when the call began is never
\* written: off-screen its file is skipped, on-screen the viewer opens for it
\* and no screenshot is taken
C13_PngKept ==
    ~force =>
        /\ shot \cap png_at_call = {}
        /\ off_screen => rendered \cap png_at_call = {}
        /\ ~off_screen => shot = {}
        /\ (~off_screen /\ PaReturned) => fs_wrl \subseteq rendered

\* a second off-screen call with force = False, after an off-screen call that
\* returned, performs no build_faces, write_vrml or render call
C13_SecondRunIdle ==
    (pa_run = 2 /\ prev_call.off_screen /\ off_screen /\ ~force) =>
        parsed = {} /\ built = {} /\ written = {} /\ rendered = {} /\ shot = {}

\* with force = True a call that returns has rebuilt every input file and
\* rendered every .wrl file
C13_ForceRedoes ==
    (force /\ PaReturned) =>
        /\ built = DOMAIN fs_cpcm
        /\ written = DOMAIN fs_cpcm
        /\ rendered = fs_wrl
        /\ off_screen => shot = fs_wrl

\* C13: skip-if-exists in process_all. With force = False an existing .wrl is
\* never parsed for, rebuilt or rewritten and an existing .png is never
\* overwritten, so a second off-screen run with force = False performs no
\* build_faces, write_vrml or render call, while force = True rebuilds and
\* re-renders every file
C13_SkipIfExists ==
    /\ C13_WrlKept
    /\ C13_PngKept
    /\ C13_SecondRunIdle
    /\ C13_ForceRedoes

\* C13 witness: the first off-screen call wrote and rendered files, the second
\* off-screen call with force = False returned having done nothing
C13_Witness ==
    /\ pa_run = 2 /\ PaReturned
    /\ prev_call.off_screen /\ off_screen /\ ~force
    /\ prev_call.written # {} /\ prev_call.shot # {}
    /\ wrl_at_call # {} /\ png_at_call # {}
    /\ built = {} /\ written = {} /\ rendered = {}

=============================================================================
